---- MODULE Spec2Model ----
(***************************************************************************)
(* A model of the Stopwatch class of stopwatch.py.                         *)
(*                                                                         *)
(* Time is counted in integer ticks of the selected time resource.  Every  *)
(* call of self._resource() is one reading of the clock; the clock may     *)
(* advance before each reading, so two readings made by the same method    *)
(* can differ.  A method is modelled as an operator on a machine record    *)
(*    m = [w  |-> the fields of the Stopwatch object (self),               *)
(*         c  |-> the current value of the clock,                          *)
(*         ds |-> the advances of the clock before the coming readings,    *)
(*         v  |-> the value returned by the last call,                     *)
(*         none |-> whether that value is None,                            *)
(*         err  |-> the exception raised, "" when there is none]           *)
(* and an action applies one public method to one Stopwatch.               *)
(***************************************************************************)
EXTENDS Integers, Sequences, FiniteSets, TLC

\* ------------------------------------------------------------------ bounds

MaxClock == 2      \* the clock is followed up to this reading
MaxLaps == 2       \* laps logged per watch
MaxHits == 4       \* hits counted per watch
MaxItems == 4      \* items of the list given to loop_timer
MaxEvery == 3      \* the chunk size `every` of a loop
MaxTimer == 3      \* the time budget of timed_loop
MaxCalls == 3      \* calls of the wrapper made by func_timer
MaxBelow == 1      \* how far below zero the hits are followed
MaxSeconds == 3725 \* the largest number of seconds converted to h, m, s

Watches == {"a", "b"}

\* what the clock can advance by between two readings made by one call
Advances == {0, 1}

\* the values given for the argument after of check_after / lap_after
Afters == {-2, -1, 0, 1, 2}

\* what the wrapped function can return
Results == {"r1", "r2"}

\* the values given for the flags start and pause of check_after / lap_after
\* (a call with a flag set is pause() or start() followed by the call without)
AfterFlags == {FALSE}

VARIABLES
    sw,      \* sw[x]: the fields of Stopwatch x
    clock,   \* the time resource
    ret,     \* the call just made: method, receiver, arguments, result
    last,    \* last[x]: the previous check() of x, for comparing two checks
    ideal,   \* ideal[x]: the paused intervals of x as the caller sees them
    streak,  \* the run of consecutive check_after / lap_after calls
    gen,     \* the generator made by loop_timer / timed_loop on watch a
    wrap     \* the wrapper made by func_timer on watch a, and its calls

vars == <<sw, clock, ret, last, ideal, streak, gen, wrap>>

\* ------------------------------------------------------- pure helpers

\* Python's % on integers: the result has the sign of the divisor.
PyMod(a, b) ==
    IF b > 0 THEN a % b ELSE -((-a) % (-b))

\* s_to_hms with the minutes taken from the whole number of seconds
s_to_hms_minutes_of_total(s) ==
    <<s \div 3600, s \div 60, s % 60>>

\* s_to_hms (floor division and modulo on a non-negative number of seconds)
s_to_hms(s) ==
    <<s \div 3600, (s % 3600) \div 60, s % 60>>

\* hms_to_s
hms_to_s(h, m, s) ==
    h * 3600 + m * 60 + s

\* _report with numeric=True: the triple when hms is set, else the seconds.
_report(delta, hms) ==
    IF hms THEN s_to_hms(delta) ELSE delta

NoKw == <<>>

\* a formatting string is modelled by the number of positional fields it
\* refers to ("{0:.2f}" is 1, "{0:.0f}:{1:02.0f}:{2:05.2f}" is 3); 0 is None
Forms == {1, 3, 4}

\* the process functions a Stopwatch is given: None or a function f
Processes == {"none", "f"}

\* the keyword arguments of a report: any of numeric and hms
Kws ==
    UNION {[names -> BOOLEAN] : names \in SUBSET {"numeric", "hms"}}

\* str.format of a string with `form` fields on the arguments args
format(form, args) ==
    IF form > Len(args)
    THEN [kind |-> "none", val |-> <<>>, err |-> "ValueError"]
    ELSE [kind |-> "text", val |-> SubSeq(args, 1, form), err |-> ""]

\* Stopwatch._report on the settings of watch w: the result of process is
\* assigned first and then overwritten by the numeric or the formatted branch
_report_with(w, delta, kw) ==
    LET numeric == IF "numeric" \in DOMAIN kw THEN kw.numeric ELSE w.numeric
        hms == IF "hms" \in DOMAIN kw THEN kw.hms ELSE w.hms
        form == w.form
        res0 == IF w.process # "none"
                THEN [kind |-> "process", val |-> <<delta>>, err |-> ""]
                ELSE [kind |-> "unbound", val |-> <<>>, err |-> ""]
    IN  IF numeric
        THEN IF hms
             THEN [res0 EXCEPT !.kind = "hms", !.val = s_to_hms(delta)]
             ELSE [res0 EXCEPT !.kind = "seconds", !.val = <<delta>>]
        ELSE IF hms
             THEN format(form, s_to_hms(delta))
             ELSE format(form, <<delta>>)

\* Stopwatch.__init__ after its reset: the settings of the reports
__init__(w, numeric, hms, form, process) ==
    [w EXCEPT !.numeric = numeric, !.hms = hms, !.process = process,
              !.form = IF hms THEN (IF form = 0 THEN 3 ELSE form)
                       ELSE (IF form = 0 THEN 1 ELSE form)]

Machine(w, c, ds) ==
    [w |-> w, c |-> c, ds |-> ds, v |-> 0, none |-> FALSE, err |-> ""]

\* ------------------------------------------------------ the methods

\* self._resource(): one reading of the clock
Resource(m) ==
    LET t == m.c + Head(m.ds)
    IN  [m EXCEPT !.c = t, !.ds = Tail(m.ds), !.v = t]

\* _time with the clock read even while the watch is paused
_time_reads_while_paused(m) ==
    Resource(m)

\* Stopwatch._time
_time(m) ==
    IF m.w._pause # 0 THEN [m EXCEPT !.v = m.w._pause] ELSE Resource(m)

\* Stopwatch.pause
pause(m, pauseit) ==
    IF pauseit /\ m.w._pause = 0
    THEN LET t == _time(m) IN [t EXCEPT !.w._pause = t.v]
    ELSE m

\* Stopwatch.start: the clock is read once for _less and once for _lap_less
start(m, startit) ==
    IF ~startit THEN m
    ELSE IF m.w._pause # 0
         THEN LET r1 == Resource(m)
                  m1 == [r1 EXCEPT !.w._less = @ + (r1.v - m.w._pause)]
                  r2 == Resource(m1)
                  m2 == [r2 EXCEPT !.w._lap_less = @ + (r2.v - m.w._pause)]
              IN  [m2 EXCEPT !.w._pause = 0]
         ELSE [m EXCEPT !.w._pause = 0]

\* reset leaving the break flag as it is
reset_keeps_break_flag(m, startf, kw) ==
    LET r == Resource(m)
        s0 == IF "_start" \in DOMAIN kw THEN kw._start ELSE r.v
        l0 == IF "_less" \in DOMAIN kw THEN kw._less ELSE 0
    IN  [r EXCEPT !.w = [m.w EXCEPT !._start = s0, !._split = s0,
                            !._check = 0, !._lap = 0, !._hits = 0,
                            !._pause = IF startf THEN 0 ELSE s0,
                            !._less = l0, !._lap_less = 0,
                            !._laps = <<>>],
                  !.v = 0, !.none = TRUE]

\* Stopwatch.reset: kw may hold _start and _less (given by sync)
reset(m, startf, kw) ==
    LET r == Resource(m)    \* the default of kwargs.get is always evaluated
        s0 == IF "_start" \in DOMAIN kw THEN kw._start ELSE r.v
        l0 == IF "_less" \in DOMAIN kw THEN kw._less ELSE 0
    IN  [r EXCEPT !.w = [m.w EXCEPT !._start = s0, !._split = s0,
                            !._check = 0, !._lap = 0, !._hits = 0,
                            !._pause = IF startf THEN 0 ELSE s0,
                            !._less = l0, !._lap_less = 0,
                            !._laps = <<>>, !._break_loop = FALSE],
                  !.v = 0, !.none = TRUE]

\* Stopwatch.check (reported with numeric=True, hms=False)
check(m, startf, pausef, kw) ==
    LET m1 == pause(m, pausef)
        m2 == start(m1, startf)
        t  == _time(m2)     \* the default of kwargs.get is always evaluated
        stamp == IF "stamp" \in DOMAIN kw THEN kw.stamp ELSE t.v
        chk == stamp - t.w._start - t.w._less
    IN  [t EXCEPT !.w._check = chk, !.v = _report(chk, FALSE), !.none = FALSE]

\* lap_logged with a paused watch logging a lap of zero length too
lap_logged_zero(w, get_lap, log) ==
    log /\ (~(w._pause # 0) \/ get_lap >= 0)

\* Stopwatch.lap, the condition under which the lap is logged
lap_logged(w, get_lap, log) ==
    log /\ (~(w._pause # 0) \/ get_lap > 0)

\* lap keeping only the lap it logs
lap_keeps_last_only(m, startf, pausef, log) ==
    LET m1 == pause(m, pausef)
        m2 == start(m1, startf)
        t  == _time(m2)
        get_split == t.v
        get_lap == get_split - t.w._split - t.w._lap_less
        m3 == IF lap_logged(t.w, get_lap, log)
              THEN [t EXCEPT !.w._laps = <<get_lap>>,
                             !.w._lap = get_lap,
                             !.w._split = get_split,
                             !.w._lap_less = 0]
              ELSE t
    IN  [m3 EXCEPT !.v = <<get_lap, get_split>>, !.none = FALSE]

\* lap logging a lap without moving the split to it
lap_keeps_split(m, startf, pausef, log) ==
    LET m1 == pause(m, pausef)
        m2 == start(m1, startf)
        t  == _time(m2)
        get_split == t.v
        get_lap == get_split - t.w._split - t.w._lap_less
        m3 == IF lap_logged(t.w, get_lap, log)
              THEN [t EXCEPT !.w._laps = Append(@, get_lap),
                             !.w._lap = get_lap,
                             !.w._lap_less = 0]
              ELSE t
    IN  [m3 EXCEPT !.v = <<get_lap, get_split>>, !.none = FALSE]

\* Stopwatch.lap up to its report: the flags, the split and the lap, and the
\* logging of the lap; v holds <<get_lap, get_split>>
lap_split(m, startf, pausef, log) ==
    LET m1 == pause(m, pausef)
        m2 == start(m1, startf)
        t  == _time(m2)
        get_split == t.v
        get_lap == get_split - t.w._split - t.w._lap_less
        m3 == IF lap_logged(t.w, get_lap, log)
              THEN [t EXCEPT !.w._laps = Append(@, get_lap),
                             !.w._lap = get_lap,
                             !.w._split = get_split,
                             !.w._lap_less = 0]
              ELSE t
    IN  [m3 EXCEPT !.v = <<get_lap, get_split>>, !.none = FALSE]

\* Stopwatch.lap, its reports, s being what lap_split left and kw the report
\* keywords of the call: `(self._report(get_lap, **kwargs),
\* self.check(stamp=get_split))`. The report of the lap is made first and with
\* the keywords; check() is called after it and without them, so it reports
\* with the settings of the watch. Either raises ValueError when the
\* formatting string has more fields than there are values: the first before
\* check() has run, the second after _check was assigned.
\* Returns <<seconds of the lap, seconds checked>>.
lap_reports(s, kw) ==
    LET get_lap == s.v[1]
        get_split == s.v[2]
        rep == _report_with(s.w, get_lap, kw)
        c == check(s, FALSE, FALSE, [stamp |-> get_split])
        crep == _report_with(c.w, c.w._check, NoKw)
    IN  IF rep.err # ""
        THEN [s EXCEPT !.v = <<get_lap, 0>>, !.err = rep.err, !.none = TRUE]
        ELSE IF crep.err # ""
        THEN [c EXCEPT !.v = <<get_lap, c.w._check>>, !.err = crep.err,
                       !.none = TRUE]
        ELSE [c EXCEPT !.v = <<get_lap, c.v>>, !.none = FALSE]

\* Stopwatch.lap (check=True, numeric=True, hms=False): returns
\* <<lap report, check report>>
lap(m, startf, pausef, log) ==
    lap_reports(lap_split(m, startf, pausef, log),
                [numeric |-> TRUE, hms |-> FALSE])

\* hit with the count assigned, not added
hit_assigns(m, hits) ==
    [m EXCEPT !.w._hits = hits, !.v = 0, !.none = TRUE]

\* Stopwatch.hit
hit(m, hits) ==
    [m EXCEPT !.w._hits = @ + hits, !.v = 0, !.none = TRUE]

\* Stopwatch.reset_hits
reset_hits(m) ==
    [m EXCEPT !.w._hits = 0, !.v = 0, !.none = TRUE]

\* Stopwatch.check_after (printit=False)
check_after(m, after, startf, pausef) ==
    LET m1 == pause(m, pausef)
        m2 == start(m1, startf)
        m3 == hit(m2, 1)
    IN  IF after = 0
        THEN [m3 EXCEPT !.err = "ZeroDivisionError"]
        ELSE IF PyMod(m3.w._hits, after) = 0
             THEN check(m3, FALSE, FALSE, NoKw)
             ELSE [m3 EXCEPT !.v = 0, !.none = TRUE]

\* Stopwatch.lap_after (printit=False, check=True)
lap_after(m, after, startf, pausef, log) ==
    LET m1 == pause(m, pausef)
        m2 == start(m1, startf)
        m3 == hit(m2, 1)
    IN  IF after = 0
        THEN [m3 EXCEPT !.err = "ZeroDivisionError"]
        ELSE IF PyMod(m3.w._hits, after) = 0
             THEN lap(m3, FALSE, FALSE, log)
             ELSE [m3 EXCEPT !.v = 0, !.none = TRUE]

\* Stopwatch.active
active(w) ==
    ~(w._pause # 0)

\* Stopwatch.inactive
inactive(w) ==
    w._pause # 0

\* Stopwatch.report: the time passed is checked, after a reset if asked for,
\* and printed with the text; nothing is returned
report(m, resetf) ==
    LET c == IF resetf
             THEN check(reset(m, FALSE, NoKw), TRUE, FALSE, NoKw)
             ELSE check(m, FALSE, FALSE, NoKw)
    IN  [c EXCEPT !.v = 0, !.none = TRUE]

\* sync that passes over a target that is not a Stopwatch, reporting the
\* TypeError after the targets that follow have been reset too
RECURSIVE sync_past_invalid(_, _, _)
sync_past_invalid(S, x, sws) ==
    IF sws = <<>> THEN S
    ELSE IF Head(sws) \notin Watches
         THEN sync_past_invalid([S EXCEPT !.err = "TypeError"], x, Tail(sws))
         ELSE LET t == Head(sws)
                  m == reset(Machine(S.sw[t], S.c, S.ds), active(S.sw[x]),
                             [_start |-> S.sw[x]._start, _less |-> S.sw[x]._less])
              IN  sync_past_invalid([S EXCEPT !.sw[t] = m.w, !.c = m.c,
                                              !.ds = m.ds], x, Tail(sws))

\* Stopwatch.sync on the machine S = [sw, c, ds, err] of all watches: every
\* target is reset onto the activity, _start and _less of watch x, in order,
\* up to the first target that is not a Stopwatch.
RECURSIVE sync(_, _, _)
sync(S, x, sws) ==
    IF sws = <<>> THEN S
    ELSE IF Head(sws) \notin Watches
         THEN [S EXCEPT !.err = "TypeError"]
         ELSE LET t == Head(sws)
                  m == reset(Machine(S.sw[t], S.c, S.ds), active(S.sw[x]),
                             [_start |-> S.sw[x]._start, _less |-> S.sw[x]._less])
              IN  sync([S EXCEPT !.sw[t] = m.w, !.c = m.c, !.ds = m.ds],
                       x, Tail(sws))

\* Stopwatch.func_timer: the watch is reset, paused, when fn is wrapped
func_timer(m) ==
    reset(m, FALSE, NoKw)

\* the watch when fn returns, d clock units after start() returned
func_called(m, d) ==
    LET s == start(m, TRUE)
    IN  [s EXCEPT !.c = @ + d]

\* one call of the wrapper func_timer returns (report=False): start(), fn,
\* which takes d units of the clock and returns res, then lap(pause=True);
\* the wrapper returns res
wrapper(m, d, res) ==
    [lap(func_called(m, d), FALSE, TRUE, TRUE) EXCEPT !.v = res, !.none = FALSE]

RECURSIVE sum(_)
sum(q) ==
    IF q = <<>> THEN 0 ELSE Head(q) + sum(Tail(q))

Range(q) ==
    {q[k] : k \in DOMAIN q}

\* ------------------------------------------------------------- loops
\*
\* A generator is the record g: src is the iterable, (i, j) the chunk and the
\* place in it of the item yielded last, out the items loop_timer yielded, and
\* pc / tpc the places where loop_timer / timed_loop are suspended ("new":
\* made and not yet run, "yielded": at the yield, "done": returned or raised).
\* A call of next() takes the pair [m, g] of machine and generator to the
\* next yield or to the end.

\* the n-th value of tarpy's infinite_count()
infinite_count(n) ==
    n

\* chunk number i (from 0) of tarpy's chunkit(src, size): consecutive runs of
\* size items in the order of the iterable, the last one shorter when the
\* items run out, taken from the iterable as they are asked for; <<>> when
\* the iterable has no such chunk
chunkit(src, size, i) ==
    IF src.finite
    THEN SubSeq(src.items, i * size + 1,
                IF (i + 1) * size < Len(src.items) THEN (i + 1) * size
                ELSE Len(src.items))
    ELSE [k \in 1..size |-> infinite_count(i * size + k - 1)]

\* `for i, chunk in enumerate(chunks)`: start() and the first yield of chunk i
loop_chunk(m, g, i) ==
    LET chunk == chunkit(g.src, g.every, i)
    IN  IF chunk = <<>>
        THEN [m |-> m, g |-> [g EXCEPT !.pc = "done"]]
        ELSE [m |-> start(m, TRUE),
              g |-> [g EXCEPT !.pc = "yielded", !.i = i, !.j = 0,
                              !.out = Append(@, chunk[1])]]

\* after the lap() that closes a chunk, going on to the next chunk whatever
\* the break flag says
loop_lapped_ignores_break(m, g) ==
    loop_chunk(m, g, g.i + 1)

\* after the lap() that closes a chunk: `if self._break_loop: break`, else
\* the next chunk
loop_lapped(m, g) ==
    IF m.w._break_loop
    THEN [m |-> m, g |-> [g EXCEPT !.pc = "done"]]
    ELSE loop_chunk(m, g, g.i + 1)

\* loop_timer resumed at its yield, with no lap for the chunk the loop ends in
loop_resume_without_last_lap(m, g) ==
    LET chunk == chunkit(g.src, g.every, g.i)
    IN  IF ~m.w._break_loop /\ g.j + 1 < Len(chunk)
        THEN [m |-> m,
              g |-> [g EXCEPT !.j = g.j + 1, !.out = Append(@, chunk[g.j + 2])]]
        ELSE IF m.w._break_loop \/ chunkit(g.src, g.every, g.i + 1) = <<>>
        THEN [m |-> m, g |-> [g EXCEPT !.pc = "done"]]
        ELSE loop_chunk(lap(m, FALSE, FALSE, TRUE), g, g.i + 1)

\* loop_timer resumed at its yield, with the lap of a chunk taken as soon as
\* the last item of the chunk is yielded
loop_resume_laps_at_last_yield(m, g) ==
    LET chunk == chunkit(g.src, g.every, g.i)
    IN  IF ~m.w._break_loop /\ g.j + 1 < Len(chunk)
        THEN [m |-> IF g.j + 2 = Len(chunk)
                    THEN lap(m, FALSE, FALSE, TRUE) ELSE m,
              g |-> [g EXCEPT !.j = g.j + 1, !.out = Append(@, chunk[g.j + 2])]]
        ELSE loop_lapped(IF Len(chunk) = 1 \/ m.w._break_loop
                         THEN lap(m, FALSE, FALSE, TRUE) ELSE m, g)

\* loop_timer resumed at its yield: the rest of the chunk, then lap() and the
\* next chunk
loop_resume(m, g) ==
    LET chunk == chunkit(g.src, g.every, g.i)
    IN  IF ~m.w._break_loop /\ g.j + 1 < Len(chunk)
        THEN [m |-> m,
              g |-> [g EXCEPT !.j = g.j + 1, !.out = Append(@, chunk[g.j + 2])]]
        ELSE loop_lapped(lap(m, FALSE, FALSE, TRUE), g)

\* next() on the generator of loop_timer(src, every)
loop_timer(m, g) ==
    IF g.pc = "new"
    THEN LET m0 == [m EXCEPT !.w._break_loop = FALSE]
         IN  IF g.every < 1
             THEN [m |-> m0, g |-> [g EXCEPT !.pc = "done", !.err = "TypeError"]]
             ELSE loop_chunk(reset(m0, FALSE, NoKw), g, 0)
    ELSE IF g.pc = "yielded"
    THEN loop_resume(m, g)
    ELSE [m |-> m, g |-> g]

\* lap statistics: the value handed to _report as a fraction num / den of
\* clock units, and the exception raised, if any
lastlap(w) ==
    [num |-> IF Len(w._laps) < 1 THEN 0 ELSE w._laps[Len(w._laps)], den |-> 1,
     err |-> ""]

maxlap(w) ==
    [num |-> IF Len(w._laps) < 1 THEN 0
             ELSE CHOOSE x \in Range(w._laps) : \A y \in Range(w._laps) : y <= x,
     den |-> 1, err |-> ""]

\* minlap taking min() of the laps without looking at their number
minlap_of_any(w) ==
    IF Len(w._laps) < 1 THEN [num |-> 0, den |-> 1, err |-> "ValueError"]
    ELSE [num |-> CHOOSE x \in Range(w._laps) : \A y \in Range(w._laps) : x <= y,
          den |-> 1, err |-> ""]

minlap(w) ==
    [num |-> IF Len(w._laps) < 1 THEN 0
             ELSE CHOOSE x \in Range(w._laps) : \A y \in Range(w._laps) : x <= y,
     den |-> 1, err |-> ""]

meanlap(w) ==
    IF Len(w._laps) < 1 THEN [num |-> 0, den |-> 1, err |-> ""]
    ELSE [num |-> sum(w._laps), den |-> Len(w._laps), err |-> ""]

medianlap(w) ==
    LET n == Len(w._laps)
        sorted == CHOOSE q \in [1..n -> Range(w._laps)] :
                    /\ \A k \in 1..(n - 1) : q[k] <= q[k + 1]
                    /\ \A x \in Range(w._laps) :
                         Cardinality({k \in 1..n : q[k] = x})
                           = Cardinality({k \in 1..n : w._laps[k] = x})
    IN  IF n < 1 THEN [num |-> 0, den |-> 1, err |-> ""]
        ELSE IF n % 2 = 1
        THEN [num |-> sorted[(n + 1) \div 2], den |-> 1, err |-> ""]
        ELSE [num |-> sorted[n \div 2] + sorted[n \div 2 + 1], den |-> 2,
              err |-> ""]

\* the sum of the squares of the laps
RECURSIVE sumsq(_)
sumsq(q) ==
    IF q = <<>> THEN 0 ELSE Head(q) * Head(q) + sumsq(Tail(q))

\* stdevlap answering 0 for fewer than two laps
stdevlap_zero_below_two(w) ==
    LET n == Len(w._laps)
    IN  IF n < 2 THEN [num |-> 0, den |-> 1, err |-> ""]
        ELSE [num |-> n * sumsq(w._laps) - sum(w._laps) * sum(w._laps),
              den |-> n * (n - 1), err |-> ""]

\* stdevlap: statistics.stdev raises StatisticsError for one data point; for
\* more, num / den is the sample variance, whose square root is reported
stdevlap(w) ==
    LET n == Len(w._laps)
    IN  IF n < 1 THEN [num |-> 0, den |-> 1, err |-> ""]
        ELSE IF n < 2 THEN [num |-> 0, den |-> 1, err |-> "StatisticsError"]
        ELSE [num |-> n * sumsq(w._laps) - sum(w._laps) * sum(w._laps),
              den |-> n * (n - 1), err |-> ""]

\* stats: the arguments of format are evaluated in order, the first exception
\* ends the call; otherwise the table is printed and None is returned
stats(w) ==
    LET args == <<minlap(w), maxlap(w), medianlap(w), meanlap(w), stdevlap(w)>>
        bad == {k \in 1..Len(args) : args[k].err # ""}
    IN  IF bad = {} THEN [num |-> 0, den |-> 1, err |-> ""]
        ELSE [num |-> 0, den |-> 1,
              err |-> args[CHOOSE k \in bad : \A j \in bad : k <= j].err]

\* the methods that report on the laps
StatNames ==
    {"lastlap", "maxlap", "minlap", "meanlap", "medianlap", "stdevlap", "stats"}

StatOf(f, w) ==
    CASE f = "lastlap" -> lastlap(w)
      [] f = "maxlap" -> maxlap(w)
      [] f = "minlap" -> minlap(w)
      [] f = "meanlap" -> meanlap(w)
      [] f = "medianlap" -> medianlap(w)
      [] f = "stdevlap" -> stdevlap(w)
      [] OTHER -> stats(w)

\* the decision of timed_loop with a budget that is never taken as used up
timed_cutoff_without_overtime(c, g) ==
    IF g.cutoff \in 0..4 THEN c ELSE [c EXCEPT !.err = "ValueError"]

\* the decision of timed_loop to end the loop, c being the machine check()
\* returned with the elapsed time
timed_cutoff(c, g) ==
    LET elapsed == c.v
        x == CASE g.cutoff = 1 -> lastlap(c.w)
               [] g.cutoff = 2 -> meanlap(c.w)
               [] g.cutoff = 3 -> medianlap(c.w)
               [] OTHER -> maxlap(c.w)
    IN  IF g.cutoff = 0
        THEN IF elapsed >= g.timer
             THEN [c EXCEPT !.w._break_loop = TRUE] ELSE c
        ELSE IF g.cutoff \in 1..4
        THEN IF elapsed * x.den + x.num * g.every > g.timer * x.den
             THEN [c EXCEPT !.w._break_loop = TRUE] ELSE c
        ELSE [c EXCEPT !.err = "ValueError"]

\* the statement after the yield of timed_loop: on the first item of a chunk
\* of `every` items, check() and the decision to end the loop
timed_check(m, g) ==
    IF PyMod(g.ti, g.every) = 0
    THEN timed_cutoff(check(m, FALSE, FALSE, NoKw), g)
    ELSE m

\* `for i, x in enumerate(self.loop_timer(...))` takes item number i
timed_item(r, i) ==
    IF r.g.pc = "yielded"
    THEN [m |-> r.m,
          g |-> [r.g EXCEPT !.tpc = "yielded", !.ti = i,
                            !.tout = Append(@, r.g.out[Len(r.g.out)])]]
    ELSE [m |-> r.m, g |-> [r.g EXCEPT !.tpc = "done"]]

\* the for statement of timed_loop asks loop_timer for item number i, unless
\* the step before raised
timed_for(c, g, i) ==
    IF c.err # ""
    THEN [m |-> c, g |-> [g EXCEPT !.tpc = "done", !.err = c.err]]
    ELSE timed_item(loop_timer(c, g), i)

\* next() on the generator of timed_loop(src, s=timer, cutoff, every=every)
timed_loop(m, g) ==
    IF g.tpc = "new"
    THEN timed_for(m, g, 0)
    ELSE IF g.tpc = "yielded"
    THEN timed_for(timed_check(m, g), g, g.ti + 1)
    ELSE [m |-> m, g |-> g]

\* ------------------------------------------------------ state machine

\* no call makes more than five readings (lap with both flags set)
ZeroPad == <<0, 0, 0, 0, 0>>

\* the number of clock readings a call made, m being the machine it returned
\* when started on the tape ZeroPad
Reads(m) ==
    Len(ZeroPad) - Len(m.ds)

\* the advances of the clock before the n readings of one call: the first
\* reading is made at the current value of the clock (Tick moves the clock
\* between calls), every later one after an advance
Tapes(n) ==
    {<<0>> \o ds \o ZeroPad :
        ds \in {t \in [1..(IF n > 0 THEN n - 1 ELSE 0) -> Advances] :
                  clock + sum(t) <= MaxClock}}

\* The call used every reading it was given an advance for.
Spent(ds) ==
    \A i \in DOMAIN ds : ds[i] = 0

\* no generator has been made
NoGen ==
    [kind |-> "none", pc |-> "none", src |-> [finite |-> TRUE, items |-> <<>>],
     every |-> 1, i |-> 0, j |-> 0, out |-> <<>>, err |-> "",
     tpc |-> "none", ti |-> 0, timer |-> 0, cutoff |-> 0, tout |-> <<>>]

\* func_timer has not been called
NoWrap ==
    [made |-> FALSE, calls |-> 0, inside |-> 0, fnres |-> ""]

BlankWatch ==
    [_start |-> 0, _split |-> 0, _check |-> 0, _lap |-> 0, _hits |-> 0,
     _pause |-> 0, _less |-> 0, _lap_less |-> 0, _laps |-> <<>>,
     _break_loop |-> FALSE,
     numeric |-> FALSE, hms |-> TRUE, form |-> 3, process |-> "none"]

NoCall ==
    [op |-> "init", w |-> "a", v |-> 0, v2 |-> 0, none |-> TRUE, err |-> "",
     after |-> 0, log |-> FALSE,
     pmode |-> "none", pv |-> 0, padv |-> FALSE,
     res |-> "", sws |-> <<>>, hms |-> <<>>, kw |-> <<>>, rep |-> <<>>]

Call(op, x, m) ==
    [NoCall EXCEPT !.op = op, !.w = x, !.none = m.none, !.err = m.err]

NoCheck == [mode |-> "none", val |-> 0, adv |-> FALSE]

NoStreak == [op |-> "", w |-> "a", after |-> 0, k |-> 0]

\* ---- the caller's view of the paused intervals (history, not program state)

\* construction or reset(start): counting begins at the reading reset took
IdealReset(m, startf) ==
    [valid |-> TRUE, t0 |-> m.c, tot |-> 0, open |-> ~startf, ps |-> m.c]

\* the intervals of a watch are followed from its creation or reset until it
\* is the target of sync or counts a call of check_after / lap_after
Untracked ==
    [valid |-> FALSE, t0 |-> 0, tot |-> 0, open |-> FALSE, ps |-> 0]

\* pause(pausef) applied to machine m: an interval opens at pause's reading
IdealPause(g, m, pausef) ==
    IF g.valid /\ pausef /\ ~g.open
    THEN [g EXCEPT !.open = TRUE, !.ps = pause(m, TRUE).c]
    ELSE g

\* start(startf) applied to machine m: the open interval ends at the reading
\* start takes for _less (at the current clock value when it takes none)
IdealStart(g, m, startf) ==
    IF g.valid /\ startf /\ g.open
    THEN [g EXCEPT !.open = FALSE,
                   !.tot = @ + ((IF m.w._pause # 0 THEN Resource(m).v ELSE m.c)
                                - g.ps)]
    ELSE g

\* pause(pausef) then start(startf), as check, lap and the *_after methods do
IdealFlags(g, m, startf, pausef) ==
    IdealStart(IdealPause(g, m, pausef), pause(m, pausef), startf)

\* elapsed time the caller expects at clock value now
Expected(g, now) ==
    (now - g.t0) - (g.tot + (IF g.open THEN now - g.ps ELSE 0))

\* a start() call ends the run of checks made while paused
Resumed(l, startf) ==
    IF startf /\ l.mode = "paused" THEN NoCheck ELSE l

Checked(m) ==
    [mode |-> IF active(m.w) THEN "active" ELSE "paused", val |-> m.v,
     adv |-> FALSE]

\* the clock moved from c to d since the previous check()
Advanced(l, c, d) ==
    IF l.mode # "none" /\ d > c THEN [l EXCEPT !.adv = TRUE] ELSE l

\* last after a call on x that left l for x and moved the clock from c to d
LastAfter(x, l, c, d) ==
    [y \in Watches |-> IF y = x THEN l ELSE Advanced(last[y], c, d)]

Fits(m) ==
    /\ m.c <= MaxClock
    /\ Spent(m.ds)
    /\ Len(m.w._laps) <= MaxLaps
    /\ m.w._hits <= MaxHits

\* Stopwatch(start=sa) for watch a at the first reading of the clock, then
\* Stopwatch(start=sb) for watch b
Construct(sa, sb, d1, d2) ==
    LET ma == reset(Machine(BlankWatch, 0, <<d1>>), sa, NoKw)
        mb == reset(Machine(BlankWatch, ma.c, <<d2>>), sb, NoKw)
    IN  /\ sw = [x \in Watches |-> IF x = "a" THEN ma.w ELSE mb.w]
        /\ clock = mb.c
        /\ ret = NoCall
        /\ last = [x \in Watches |-> NoCheck]
        /\ streak = NoStreak
        /\ gen = NoGen
        /\ wrap = NoWrap
        /\ ideal = [x \in Watches |->
                      IF x = "a" THEN IdealReset(ma, sa) ELSE IdealReset(mb, sb)]

Init ==
    \E sa \in BOOLEAN, d1 \in Advances : Construct(sa, TRUE, d1, 0)

\* time passes
Tick ==
    /\ clock < MaxClock
    /\ clock' = clock + 1
    /\ ret' = [NoCall EXCEPT !.op = "tick"]
    /\ last' = [x \in Watches |-> Advanced(last[x], clock, clock + 1)]
    /\ UNCHANGED <<sw, ideal, streak, gen, wrap>>

Reset(x) ==
    \E startf \in BOOLEAN, ds \in Tapes(1) :
        LET m == reset(Machine(sw[x], clock, ds), startf, NoKw)
        IN  /\ Fits(m)
            /\ sw' = [sw EXCEPT ![x] = m.w]
            /\ clock' = m.c
            /\ ret' = Call("reset", x, m)
            /\ last' = LastAfter(x, NoCheck, clock, m.c)
            /\ ideal' = [ideal EXCEPT ![x] = IdealReset(m, startf)]
            /\ streak' = NoStreak
            /\ UNCHANGED <<gen, wrap>>

Pause(x) ==
    \E ds \in Tapes(Reads(pause(Machine(sw[x], clock, ZeroPad), TRUE))) :
        LET m0 == Machine(sw[x], clock, ds)
            m == pause(m0, TRUE)
        IN  /\ Fits(m)
            /\ sw' = [sw EXCEPT ![x] = m.w]
            /\ clock' = m.c
            /\ ret' = Call("pause", x, [m EXCEPT !.none = TRUE])
            /\ ideal' = [ideal EXCEPT ![x] = IdealPause(@, m0, TRUE)]
            /\ last' = LastAfter(x, Advanced(last[x], clock, m.c), clock, m.c)
            /\ streak' = NoStreak
            /\ UNCHANGED <<gen, wrap>>

Start(x) ==
    \E ds \in Tapes(Reads(start(Machine(sw[x], clock, ZeroPad), TRUE))) :
        LET m0 == Machine(sw[x], clock, ds)
            m == start(m0, TRUE)
        IN  /\ Fits(m)
            /\ sw' = [sw EXCEPT ![x] = m.w]
            /\ clock' = m.c
            /\ ret' = Call("start", x, [m EXCEPT !.none = TRUE])
            /\ ideal' = [ideal EXCEPT ![x] = IdealStart(@, m0, TRUE)]
            /\ last' = LastAfter(x, Advanced(Resumed(last[x], TRUE), clock, m.c), clock, m.c)
            /\ streak' = NoStreak
            /\ UNCHANGED <<gen, wrap>>

Check(x) ==
    \E startf \in BOOLEAN, pausef \in BOOLEAN :
    \E ds \in Tapes(Reads(check(Machine(sw[x], clock, ZeroPad), startf, pausef, NoKw))) :
        LET m0 == Machine(sw[x], clock, ds)
            m == check(m0, startf, pausef, NoKw)
            l == Advanced(Resumed(last[x], startf), clock, m.c)
        IN  /\ Fits(m)
            /\ sw' = [sw EXCEPT ![x] = m.w]
            /\ clock' = m.c
            /\ ret' = [Call("check", x, m) EXCEPT !.v = m.v, !.pmode = l.mode,
                                                   !.pv = l.val, !.padv = l.adv]
            /\ ideal' = [ideal EXCEPT ![x] = IdealFlags(@, m0, startf, pausef)]
            /\ last' = LastAfter(x, Checked(m), clock, m.c)
            /\ streak' = NoStreak
            /\ UNCHANGED <<gen, wrap>>

Lap(x) ==
    \E startf \in BOOLEAN, pausef \in BOOLEAN, log \in BOOLEAN :
    \E ds \in Tapes(Reads(lap(Machine(sw[x], clock, ZeroPad), startf, pausef, log))) :
        LET m0 == Machine(sw[x], clock, ds)
            m == lap(m0, startf, pausef, log)
        IN  /\ Fits(m)
            /\ sw' = [sw EXCEPT ![x] = m.w]
            /\ clock' = m.c
            /\ ret' = [Call("lap", x, m) EXCEPT !.v = m.v[1], !.v2 = m.v[2],
                                                 !.log = log]
            /\ ideal' = [ideal EXCEPT ![x] = IdealFlags(@, m0, startf, pausef)]
            /\ last' = LastAfter(x, Advanced(Resumed(last[x], startf), clock, m.c), clock, m.c)
            /\ streak' = NoStreak
            /\ UNCHANGED <<gen, wrap>>

Hit(x) ==
    \E hits \in 1..2 :
        LET m == hit(Machine(sw[x], clock, ZeroPad), hits)
        IN  /\ Fits(m)
            /\ sw' = [sw EXCEPT ![x] = m.w]
            /\ ret' = Call("hit", x, m)
            /\ streak' = NoStreak
            /\ UNCHANGED <<gen, wrap>>
            /\ UNCHANGED <<clock, last, ideal>>

\* x.hit(hits) with a count below zero
HitBelow(x) ==
    \E hits \in {-1} :
        LET m == hit(Machine(sw[x], clock, ZeroPad), hits)
        IN  /\ m.w._hits >= -MaxBelow
            /\ sw' = [sw EXCEPT ![x] = m.w]
            /\ ret' = Call("hit", x, m)
            /\ streak' = NoStreak
            /\ UNCHANGED <<gen, wrap>>
            /\ UNCHANGED <<clock, last, ideal>>

ResetHits(x) ==
    LET m == reset_hits(Machine(sw[x], clock, ZeroPad))
    IN  /\ sw' = [sw EXCEPT ![x] = m.w]
        /\ ret' = Call("reset_hits", x, m)
        /\ streak' = NoStreak
        /\ UNCHANGED <<gen, wrap>>
        /\ UNCHANGED <<clock, last, ideal>>

\* a call of one of the lap statistics, numeric=True and hms=False
Stats(x) ==
    \E f \in StatNames :
        LET r == StatOf(f, sw[x])
        IN  /\ ret' = [NoCall EXCEPT !.op = f, !.w = x, !.v = r.num,
                                     !.v2 = r.den, !.err = r.err,
                                     !.none = (f = "stats" \/ r.err # "")]
            /\ streak' = NoStreak
            /\ UNCHANGED <<sw, clock, last, ideal, gen, wrap>>

\* the consecutive calls of op(after) on x, after >= 1, that began at hits = 0
Streak(op, x, after) ==
    IF streak.op = op /\ streak.w = x /\ streak.after = after
    THEN [streak EXCEPT !.k = @ + 1]
    ELSE IF sw[x]._hits = 0 /\ after >= 1
         THEN [op |-> op, w |-> x, after |-> after, k |-> 1]
         ELSE NoStreak

CheckAfter(x) ==
    \E after \in Afters, startf \in AfterFlags, pausef \in AfterFlags :
    \E ds \in Tapes(Reads(check_after(Machine(sw[x], clock, ZeroPad), after, startf, pausef))) :
        LET m0 == Machine(sw[x], clock, ds)
            m == check_after(m0, after, startf, pausef)
            st == Streak("check_after", x, after)
        IN  /\ Fits(m)
            /\ sw' = [sw EXCEPT ![x] = m.w]
            /\ clock' = m.c
            /\ ret' = [Call("check_after", x, m) EXCEPT !.v = m.v, !.after = after]
            /\ ideal' = [ideal EXCEPT ![x] = Untracked]
            /\ last' = LastAfter(x, NoCheck, clock, m.c)
            /\ streak' = st
            /\ UNCHANGED <<gen, wrap>>

LapAfter(x) ==
    \E after \in Afters, startf \in AfterFlags, pausef \in AfterFlags,
       log \in BOOLEAN :
    \E ds \in Tapes(Reads(lap_after(Machine(sw[x], clock, ZeroPad), after, startf, pausef, log))) :
        LET m0 == Machine(sw[x], clock, ds)
            m == lap_after(m0, after, startf, pausef, log)
            reported == m.err = "" /\ ~m.none
            st == Streak("lap_after", x, after)
        IN  /\ Fits(m)
            /\ sw' = [sw EXCEPT ![x] = m.w]
            /\ clock' = m.c
            /\ ret' = [Call("lap_after", x, m) EXCEPT
                          !.v = IF reported THEN m.v[1] ELSE 0,
                          !.v2 = IF reported THEN m.v[2] ELSE 0,
                          !.after = after, !.log = log]
            /\ ideal' = [ideal EXCEPT ![x] = Untracked]
            /\ last' = LastAfter(x, NoCheck, clock, m.c)
            /\ streak' = st
            /\ UNCHANGED <<gen, wrap>>

\* x.sync(y)
Sync(x, y) ==
    \E ds \in Tapes(1) :
        LET S == sync([sw |-> sw, c |-> clock, ds |-> ds, err |-> ""], x, <<y>>)
        IN  /\ S.c <= MaxClock
            /\ Spent(S.ds)
            /\ sw' = S.sw
            /\ clock' = S.c
            /\ ret' = [NoCall EXCEPT !.op = "sync", !.w = x, !.err = S.err]
            /\ last' = [x2 \in Watches |->
                          IF x2 = y THEN NoCheck ELSE Advanced(last[x2], clock, S.c)]
            /\ ideal' = [ideal EXCEPT ![y] = Untracked]
            /\ streak' = NoStreak
            /\ UNCHANGED <<gen, wrap>>

\* x.report(text, reset=resetf)
Report(x) ==
    \E resetf \in BOOLEAN, ds \in Tapes(Len(ZeroPad)) :
        LET m == report(Machine(sw[x], clock, ds), resetf)
        IN  /\ Fits(m)
            /\ sw' = [sw EXCEPT ![x] = m.w]
            /\ clock' = m.c
            /\ ret' = Call(IF resetf THEN "report_reset" ELSE "report", x, m)
            /\ last' = LastAfter(x, NoCheck, clock, m.c)
            /\ ideal' = [ideal EXCEPT ![x] = Untracked]
            /\ streak' = NoStreak
            /\ UNCHANGED <<gen, wrap>>

\* the argument lists given to sync: watch b, and None, which is no Stopwatch
Targets ==
    {<<"b">>, <<"None">>, <<"b", "None">>, <<"None", "b">>,
     <<"b", "None", "b">>}

\* x.sync(*sws)
SyncMany(x) ==
    \E sws \in Targets, ds \in Tapes(Len(ZeroPad)) :
        LET S == sync([sw |-> sw, c |-> clock, ds |-> ds, err |-> ""], x, sws)
        IN  /\ S.c <= MaxClock
            /\ Spent(S.ds)
            /\ sw' = S.sw
            /\ clock' = S.c
            /\ ret' = [NoCall EXCEPT !.op = "sync_many", !.w = x,
                                     !.err = S.err, !.sws = sws]
            /\ last' = [x2 \in Watches |-> NoCheck]
            /\ ideal' = [x2 \in Watches |-> Untracked]
            /\ streak' = NoStreak
            /\ UNCHANGED <<gen, wrap>>

\* a.func_timer(fn)
FuncTimer ==
    \E ds \in Tapes(1) :
        LET m == func_timer(Machine(sw["a"], clock, ds))
        IN  /\ Fits(m)
            /\ sw' = [sw EXCEPT !["a"] = m.w]
            /\ clock' = m.c
            /\ wrap' = [NoWrap EXCEPT !.made = TRUE]
            /\ ret' = Call("func_timer", "a", m)
            /\ last' = LastAfter("a", NoCheck, clock, m.c)
            /\ ideal' = [ideal EXCEPT !["a"] = Untracked]
            /\ streak' = NoStreak
            /\ UNCHANGED gen

\* the state after a call of the wrapper that left machine m, p being the
\* machine at the pause() of its lap and f the machine when fn began
Wrapped(m, p, f, res) ==
    /\ Fits(m)
    /\ sw' = [sw EXCEPT !["a"] = m.w]
    /\ clock' = m.c
    /\ wrap' = [wrap EXCEPT !.calls = @ + 1, !.inside = @ + (p.c - f.c),
                            !.fnres = res]
    /\ ret' = [Call("wrapper", "a", m) EXCEPT !.res = m.v]
    /\ last' = LastAfter("a", NoCheck, clock, m.c)
    /\ ideal' = [ideal EXCEPT !["a"] = Untracked]
    /\ streak' = NoStreak
    /\ UNCHANGED gen

\* a call of the wrapper made by a.func_timer(fn)
Wrapper ==
    /\ wrap.made
    /\ wrap.calls < MaxCalls
    /\ \E d \in Advances, res \in Results, ds \in Tapes(Len(ZeroPad)) :
           Wrapped(wrapper(Machine(sw["a"], clock, ds), d, res),
                   pause(func_called(Machine(sw["a"], clock, ds), d), TRUE),
                   start(Machine(sw["a"], clock, ds), TRUE), res)

\* the state after a call of next() that left the pair r, having used every
\* reading it was given an advance for
Iterated(r) ==
    /\ Spent(r.m.ds)
    /\ sw' = [sw EXCEPT !["a"] = r.m.w]
    /\ clock' = r.m.c
    /\ gen' = r.g
    /\ ret' = [NoCall EXCEPT !.op = "next", !.err = r.g.err]
    /\ last' = LastAfter("a", NoCheck, clock, r.m.c)
    /\ ideal' = [ideal EXCEPT !["a"] = Untracked]
    /\ streak' = NoStreak
    /\ UNCHANGED wrap

\* g = a.loop_timer(src, every) over a list of n items: nothing runs yet
LoopTimerCall ==
    /\ gen.pc \in {"none", "done"}
    /\ \E n \in 0..MaxItems, every \in 0..MaxEvery :
           gen' = [NoGen EXCEPT !.kind = "loop", !.pc = "new", !.every = every,
                                !.src = [finite |-> TRUE,
                                         items |-> [k \in 1..n |-> k]]]
    /\ ret' = [NoCall EXCEPT !.op = "loop_timer"]
    /\ UNCHANGED <<sw, clock, last, ideal, streak, wrap>>

\* next(g) by the for statement that iterates loop_timer
LoopTimerNext ==
    /\ gen.kind = "loop"
    /\ gen.pc \in {"new", "yielded"}
    /\ \E ds \in Tapes(Len(ZeroPad)) :
           Iterated(loop_timer(Machine(sw["a"], clock, ds), gen))

\* g = a.timed_loop(s=s, every=every) over the infinite counter
TimedLoopCall ==
    /\ gen.tpc = "none"
    /\ \E s \in (-1)..MaxTimer, every \in 1..MaxEvery :
           gen' = [NoGen EXCEPT !.kind = "timed", !.pc = "new", !.tpc = "new",
                                !.every = every, !.timer = hms_to_s(0, 0, s),
                                !.cutoff = 0,
                                !.src = [finite |-> FALSE, items |-> <<>>]]
    /\ ret' = [NoCall EXCEPT !.op = "timed_loop"]
    /\ UNCHANGED <<sw, clock, last, ideal, streak, wrap>>

\* the items the for statement of the caller takes from generator g at most:
\* the infinite counter is followed for one chunk per unit of the budget, and
\* two items more
CountCap(g) ==
    (IF g.timer > 0 THEN g.timer ELSE 0) * g.every + 2

\* the advances of a clock that moves on before every check() of timed_loop
StrictTapes(checks) ==
    {<<d>> \o ds \o ZeroPad :
        d \in (IF checks THEN {1, 2} ELSE Advances),
        ds \in [1..(Len(ZeroPad) - 1) -> Advances]}

\* next(g) by the for statement that iterates timed_loop; a call that reads
\* the clock not at all (check() on a paused watch) leaves the clock alone
TimedLoopNext ==
    /\ gen.kind = "timed"
    /\ gen.tpc \in {"new", "yielded"}
    /\ Len(gen.tout) < CountCap(gen)
    /\ \E ds \in StrictTapes(gen.tpc = "yielded" /\ PyMod(gen.ti, gen.every) = 0)
                  \cup {ZeroPad} :
           \E r \in {timed_loop(Machine(sw["a"], clock, ds), gen)} :
               /\ ds = ZeroPad => Len(r.m.ds) = Len(ds)
               /\ Iterated(r)

\* the values given for cutoff: the five policies and two that are none
Cutoffs == (-1)..5

\* g = a.timed_loop(src, s=s, cutoff=cutoff, every=every) over a list of n
\* items: nothing runs yet
TimedLoopOver ==
    /\ gen.tpc = "none"
    /\ \E n \in 0..MaxItems, s \in 0..MaxTimer, cutoff \in Cutoffs,
          every \in 1..MaxEvery :
           gen' = [NoGen EXCEPT !.kind = "timed", !.pc = "new", !.tpc = "new",
                                !.every = every, !.timer = hms_to_s(0, 0, s),
                                !.cutoff = cutoff,
                                !.src = [finite |-> TRUE,
                                         items |-> [k \in 1..n |-> k]]]
    /\ ret' = [NoCall EXCEPT !.op = "timed_loop"]
    /\ UNCHANGED <<sw, clock, last, ideal, streak, wrap>>

\* next(g) by the for statement that iterates timed_loop over a list
TimedLoopOverNext ==
    /\ gen.kind = "timed"
    /\ gen.src.finite
    /\ gen.tpc \in {"new", "yielded"}
    /\ \E ds \in Tapes(Len(ZeroPad)) :
           \E r \in {timed_loop(Machine(sw["a"], clock, ds), gen)} : Iterated(r)

\* ---- one Stopwatch: pause, start, check, lap, reset

Next ==
    \/ Tick
    \/ Reset("a")
    \/ Pause("a")
    \/ Start("a")
    \/ Check("a")
    \/ Lap("a")

Spec == Init /\ [][Next]_vars

\* ---- two Stopwatches, one synchronised onto the other

InitSync ==
    \E sa \in BOOLEAN, sb \in BOOLEAN, d1 \in Advances :
        Construct(sa, sb, d1, 0)

NextSync ==
    \/ Tick
    \/ Pause("a")
    \/ Start("a")
    \/ Sync("a", "b")
    \/ \E x \in Watches : Check(x)

SpecSync == InitSync /\ [][NextSync]_vars

\* ---- one Stopwatch iterated by loop_timer

NextLoop ==
    \/ Tick
    \/ LoopTimerCall
    \/ LoopTimerNext

SpecLoop == Init /\ [][NextLoop]_vars

\* ---- one Stopwatch iterated by timed_loop: the for statement goes on asking
\* ---- for items until the generator ends

NextTimed ==
    \/ TimedLoopCall
    \/ TimedLoopNext

\* the for statement has an item to ask for: ENABLED <<NextTimed>>_vars
TimedPending ==
    \/ gen.tpc = "none"
    \/ gen.kind = "timed" /\ gen.tpc \in {"new", "yielded"}
                          /\ Len(gen.tout) < CountCap(gen)

\* The for statement of the caller asks for the next item as long as the
\* generator has not ended: weak fairness of NextTimed, WF_vars(NextTimed),
\* with ENABLED <<NextTimed>>_vars written out as TimedPending
TimedFair ==
    []<>(~TimedPending) \/ []<><<NextTimed>>_vars

SpecTimed == Init /\ [][NextTimed]_vars /\ TimedFair

\* ---- one Stopwatch that times the calls of a function

NextFunc ==
    \/ Tick
    \/ FuncTimer
    \/ Wrapper

SpecFunc == Init /\ [][NextFunc]_vars

\* ---- one Stopwatch and the statistics of its laps

NextStats ==
    \/ Tick
    \/ Reset("a")
    \/ Lap("a")
    \/ Stats("a")

SpecStats == Init /\ [][NextStats]_vars

\* ---- the conversions between seconds and hours, minutes, seconds

\* the numbers of seconds converted
Seconds == 0..MaxSeconds

\* s_to_hms(x), once in a behaviour: the functions keep no state
SToHms ==
    \E x \in Seconds :
        /\ ret.op \notin {"s_to_hms", "hms_to_s"}
        /\ ret' = [NoCall EXCEPT !.op = "s_to_hms", !.v = x,
                                 !.hms = s_to_hms(x), !.none = FALSE]
        /\ UNCHANGED <<sw, clock, last, ideal, streak, gen, wrap>>

\* hms_to_s(*t) on the triple t that s_to_hms returned
HmsToS ==
    /\ ret.op = "s_to_hms"
    /\ ret' = [ret EXCEPT !.op = "hms_to_s",
                          !.v2 = hms_to_s(ret.hms[1], ret.hms[2], ret.hms[3])]
    /\ UNCHANGED <<sw, clock, last, ideal, streak, gen, wrap>>

NextHms ==
    \/ SToHms
    \/ HmsToS

SpecHms == Init /\ [][NextHms]_vars

\* ---- one Stopwatch made with any settings of its reports

\* Stopwatch(start=True, numeric, hms, form, process)
InitReport ==
    \E numeric \in BOOLEAN, hms \in BOOLEAN, form \in {0} \cup Forms,
       process \in Processes, d1 \in Advances :
        LET ma == reset(Machine(BlankWatch, 0, <<d1>>), TRUE, NoKw)
            w == __init__(ma.w, numeric, hms, form, process)
        IN  /\ sw = [x \in Watches |-> w]
            /\ clock = ma.c
            /\ ret = NoCall
            /\ last = [x \in Watches |-> NoCheck]
            /\ streak = NoStreak
            /\ gen = NoGen
            /\ wrap = NoWrap
            /\ ideal = [x \in Watches |-> IdealReset(ma, TRUE)]

\* what a call that reports delta from watch w with the keywords kw returns
Reported(op, w, delta, kw) ==
    LET rep == _report_with(w, delta, kw)
    IN  [NoCall EXCEPT !.op = op, !.v = delta, !.kw = kw, !.rep = rep,
                       !.err = rep.err, !.none = (rep.err # "")]

\* a.check(**kw): the elapsed seconds in ret.v, what is returned in ret.rep
CheckWith ==
    \E kw \in Kws, ds \in Tapes(1) :
        LET m == check(Machine(sw["a"], clock, ds), FALSE, FALSE, NoKw)
        IN  /\ Fits(m)
            /\ sw' = [sw EXCEPT !["a"] = m.w]
            /\ clock' = m.c
            /\ ret' = Reported("check_with", m.w, m.w._check, kw)
            /\ last' = [last EXCEPT !["a"] = NoCheck]
            /\ streak' = NoStreak
            /\ UNCHANGED <<ideal, gen, wrap>>

\* a.lap(**kw): the seconds of the lap in ret.v, what is returned in ret.rep
LapWith ==
    \E kw \in Kws :
    \E ds \in Tapes(Reads(lap_reports(lap_split(Machine(sw["a"], clock, ZeroPad),
                                                FALSE, FALSE, TRUE), kw))) :
        LET m == lap_reports(lap_split(Machine(sw["a"], clock, ds),
                                       FALSE, FALSE, TRUE), kw)
        IN  /\ Fits(m)
            /\ sw' = [sw EXCEPT !["a"] = m.w]
            /\ clock' = m.c
            /\ ret' = [Reported("lap_with", m.w, m.v[1], kw) EXCEPT
                          !.rep = IF m.err # ""
                                  THEN [kind |-> "none", val |-> <<>>,
                                        err |-> m.err]
                                  ELSE @,
                          !.err = m.err,
                          !.none = (m.err # "")]
            /\ last' = [last EXCEPT !["a"] = NoCheck]
            /\ streak' = NoStreak
            /\ UNCHANGED <<ideal, gen, wrap>>

\* a.lastlap(**kw): the last lap in ret.v, what is returned in ret.rep
LastlapWith ==
    \E kw \in Kws :
        /\ ret' = Reported("lastlap_with", sw["a"], lastlap(sw["a"]).num, kw)
        /\ streak' = NoStreak
        /\ UNCHANGED <<sw, clock, last, ideal, gen, wrap>>

NextReport ==
    \/ Tick
    \/ LapWith
    \/ CheckWith
    \/ LastlapWith

SpecReport == InitReport /\ [][NextReport]_vars

\* ---- one Stopwatch iterated by timed_loop over a list, with any cutoff

NextCutoff ==
    \/ Tick
    \/ TimedLoopOver
    \/ TimedLoopOverNext

SpecCutoff == Init /\ [][NextCutoff]_vars

\* ---- two Stopwatches, one synchronised onto the other among arguments
\* ---- that are no Stopwatch

NextTargets ==
    \/ Tick
    \/ Pause("a")
    \/ Start("a")
    \/ Reset("b")
    \/ Hit("b")
    \/ SyncMany("a")

SpecTargets == InitSync /\ [][NextTargets]_vars

\* ---- one Stopwatch: the calls that write the hits, with pause and start;
\* ---- check() and lap() run inside check_after() and lap_after()

NextHits ==
    \/ Reset("a")
    \/ Pause("a")
    \/ Start("a")
    \/ Hit("a")
    \/ HitBelow("a")
    \/ ResetHits("a")
    \/ CheckAfter("a")
    \/ LapAfter("a")

SpecHits == Init /\ [][NextHits]_vars

\* ---- the calls that write the laps of watch a: a program that calls
\* ---- reset, lap, sync and report, and then wraps a function or runs a loop

\* neither func_timer nor loop_timer has been called
Plain ==
    gen.kind = "none" /\ ~wrap.made

NextLaps ==
    \/ Plain /\ Reset("a")
    \/ Plain /\ Lap("a")
    \/ Plain /\ Sync("b", "a")
    \/ Plain /\ Report("a")
    \/ gen.kind = "none" /\ FuncTimer
    \/ Wrapper
    \/ ~wrap.made /\ LoopTimerCall
    \/ LoopTimerNext

SpecLaps == Init /\ [][NextLaps]_vars

\* ---- a Stopwatch hit, reset and made the target of sync after a timed loop

NextReset ==
    \/ TimedLoopCall
    \/ TimedLoopNext
    \/ gen.tpc = "done" /\ sw["a"]._hits < 2 /\ Hit("a")
    \/ gen.tpc = "done" /\ Pause("b")
    \/ gen.tpc = "done" /\ Start("b")
    \/ gen.tpc = "done" /\ Reset("a")
    \/ gen.tpc = "done" /\ Sync("b", "a")

SpecReset == Init /\ [][NextReset]_vars

\* ---- one Stopwatch: hits and the calls gated by them

NextAfter ==
    \/ Pause("a")
    \/ Start("a")
    \/ Hit("a")
    \/ ResetHits("a")
    \/ CheckAfter("a")
    \/ LapAfter("a")

SpecAfter == Init /\ [][NextAfter]_vars

\* ------------------------------------------------------------ claims

\* what x.check() returns when called now
CheckNow(x) ==
    check(Machine(sw[x], clock, ZeroPad), FALSE, FALSE, NoKw).v

\* the time of the still-open lap of x: what x.lap() would measure now
OpenLap(x) ==
    (IF sw[x]._pause # 0 THEN sw[x]._pause ELSE clock)
        - sw[x]._split - sw[x]._lap_less

\* C1: between two consecutive check() calls on one watch made while it is
\* active the value never decreases, and two check() calls made while the
\* watch stays paused (no start() in between) return the same value, however
\* far the clock has advanced.
C1_CheckMonotoneAndFrozen ==
    \A x \in Watches :
        (ret.op = "check" /\ ret.w = x) =>
            /\ (ret.pmode = "active" /\ active(sw[x])) => ret.v >= ret.pv
            /\ (ret.pmode = "paused" /\ inactive(sw[x])) => ret.v = ret.pv

\* a second check() of a paused watch, made after the clock has advanced
C1_Witness ==
    /\ ret.op = "check"
    /\ ret.pmode = "paused"
    /\ ret.padv
    /\ inactive(sw[ret.w])
    /\ ret.v > 0

\* C2: check() equals (current reading - reading at creation or reset) minus
\* the total length of the paused intervals, an interval running from the
\* reading taken by pause() (or by a creation or reset with start=False) to
\* the reading taken by the matching start(), or to now while still paused.
C2_ElapsedIsClockMinusPaused ==
    \A x \in Watches :
        (ret.op = "check" /\ ret.w = x /\ ideal[x].valid) =>
            ret.v = Expected(ideal[x], clock)

\* C4: lap() with log=True appends exactly its lap duration when the watch is
\* active at the split (a duration of zero included) or when it is paused and
\* the duration is positive, and appends nothing when the watch is paused and
\* the duration is zero or negative.
C4_LapLoggingGate ==
    [][\A x \in Watches :
         (ret'.op = "lap" /\ ret'.w = x /\ ret'.log) =>
             IF active(sw'[x]) \/ ret'.v > 0
             THEN sw'[x]._laps = Append(sw[x]._laps, ret'.v)
             ELSE sw'[x]._laps = sw[x]._laps]_vars

\* lap() on a paused watch whose lap duration is zero: nothing was logged
C4_Witness ==
    /\ ret.op = "lap"
    /\ ret.log
    /\ inactive(sw[ret.w])
    /\ ret.v = 0
    /\ sw[ret.w]._laps = <<>>
    /\ clock > sw[ret.w]._pause

\* C3: in every reachable state the logged lap durations and the time of the
\* still-open lap add up to the total elapsed time check() returns.
C3_LapPartition ==
    \A x \in Watches : sum(sw[x]._laps) + OpenLap(x) = CheckNow(x)

\* C5: check() never returns a negative elapsed time, sync targets included.
C5_ElapsedNeverNegative ==
    \A x \in Watches : (ret.op = "check" /\ ret.w = x) => ret.v >= 0

\* C6: after a.sync(b), b has the activity state of a and b.check() returns
\* what a.check() returns at the same instant.
C6_SyncCopiesElapsed ==
    \A x \in Watches, y \in Watches :
        (ret.op = "sync" /\ ret.w = x /\ ret.err = "" /\ x # y) =>
            /\ active(sw[y]) = active(sw[x])
            /\ CheckNow(y) = CheckNow(x)

\* C7: counting the consecutive calls of check_after(after) (or of
\* lap_after(after)) from hits = 0 with after >= 1, the k-th call leaves
\* hits = k and returns a report iff k mod after = 0, None otherwise; a call of
\* lap_after that returns None leaves laps and the split reference alone.
C7_AfterGating ==
    [][\A x \in Watches :
         (/\ ret'.op \in {"check_after", "lap_after"}
          /\ ret'.w = x
          /\ ret'.after >= 1
          /\ streak'.k >= 1) =>
             /\ sw'[x]._hits = streak'.k
             /\ ret'.err = ""
             /\ ret'.none <=> (streak'.k % ret'.after # 0)
             /\ (ret'.op = "lap_after" /\ ret'.none) =>
                    /\ sw'[x]._laps = sw[x]._laps
                    /\ sw'[x]._split = sw[x]._split]_vars

\* the fourth consecutive lap_after(2) from hits = 0 reported and logged
C7_Witness ==
    /\ ret.op = "lap_after"
    /\ ret.after = 2
    /\ streak.k = 4
    /\ ~ret.none
    /\ ret.log
    /\ sw[ret.w]._hits = 4
    /\ Len(sw[ret.w]._laps) = 2

\* C8: check_after and lap_after fail for every after <= 0 and return no
\* report for such an argument.
C8_NonPositiveAfterFails ==
    (ret.op \in {"check_after", "lap_after"} /\ ret.after <= 0) =>
        (ret.err # "" /\ ret.none)

\* C9: once loop_timer over a list of n items with chunk size k >= 1 has run
\* to its end, it has yielded exactly the items of the list in their order
\* and the watch holds one lap per chunk, ceil(n / k) laps.
C9_LoopTimerYieldsAllAndLapsPerChunk ==
    (gen.kind = "loop" /\ gen.pc = "done" /\ gen.every >= 1) =>
        /\ gen.err = ""
        /\ gen.out = gen.src.items
        /\ Len(sw["a"]._laps)
             = (Len(gen.src.items) + gen.every - 1) \div gen.every

\* a list of four items in chunks of three: the last chunk is shorter
C9_Witness ==
    /\ gen.kind = "loop" /\ gen.pc = "done"
    /\ gen.every = 3
    /\ gen.out = <<1, 2, 3, 4>>
    /\ Len(sw["a"]._laps) = 2

\* C10: timed_loop over the infinite counter with the overtime policy comes
\* to an end when the clock moves on before every check, whatever the budget,
\* and what it has yielded is always an initial run 0, 1, 2, ... of the
\* counter.
C10_TimedLoopTerminates ==
    /\ <>(gen.kind = "timed" /\ gen.tpc = "done" /\ gen.err = "")
    /\ [](gen.tout = [k \in 1..Len(gen.tout) |-> k - 1])

\* a budget of two clock units, checked every second item, ended after
\* three items or more
C10_Witness ==
    /\ gen.kind = "timed" /\ gen.tpc = "done"
    /\ gen.timer = 2 /\ gen.every = 2
    /\ Len(gen.tout) >= 3

\* C11: after func_timer(fn) and any calls of the wrapper the watch is paused,
\* and both check() and the sum of the laps equal the clock time spent inside
\* fn, from the return of start() to the reading that pauses the watch.
C11_FuncTimerCountsTimeInside ==
    wrap.made =>
        /\ inactive(sw["a"])
        /\ CheckNow("a") = wrap.inside
        /\ sum(sw["a"]._laps) = wrap.inside

\* C12: every call of the wrapper made by func_timer appends one lap, also
\* when the clock does not advance during the call, and returns what fn
\* returned.
C12_FuncTimerLogsOneLapPerCall ==
    wrap.made =>
        /\ Len(sw["a"]._laps) = wrap.calls
        /\ (ret.op = "wrapper" => ~ret.none /\ ret.res = wrap.fnres)

\* C13: whenever laps is empty, minlap, maxlap, meanlap, medianlap and lastlap
\* each report the value 0 and raise no error.
C13_EmptyLapsReportZero ==
    \A x \in Watches :
        Len(sw[x]._laps) = 0 =>
            /\ \A f \in {"minlap", "maxlap", "meanlap", "medianlap", "lastlap"} :
                   StatOf(f, sw[x]).num = 0 /\ StatOf(f, sw[x]).err = ""
            /\ (ret.w = x /\ ret.op \in {"minlap", "maxlap", "meanlap",
                                         "medianlap", "lastlap"}
                  => ret.v = 0 /\ ret.err = "" /\ ~ret.none)

\* minlap has been called on a watch without laps after time has passed
C13_Witness ==
    /\ ret.op = "minlap"
    /\ Len(sw["a"]._laps) = 0
    /\ clock > 0
    /\ ret.v = 0

\* C14: stdevlap reports 0 when laps is empty, fails with StatisticsError when
\* exactly one lap is recorded and returns a value when two or more are; stats
\* fails too when exactly one lap is recorded.
C14_StdevNeedsTwoLaps ==
    LET n == Len(sw["a"]._laps)
    IN  /\ ret.op = "stdevlap" =>
            /\ (n = 0 => ret.err = "" /\ ~ret.none /\ ret.v = 0)
            /\ (n = 1 => ret.err = "StatisticsError")
            /\ (n >= 2 => ret.err = "" /\ ~ret.none)
            /\ (n # 0 /\ ret.err = "" => n >= 2 /\ ret.v >= 0 /\ ret.v2 > 0)
        /\ ret.op = "stats" =>
            /\ (n = 1 => ret.err = "StatisticsError")
            /\ (n # 1 => ret.err = "")

\* stdevlap has failed on a watch with exactly one lap
C14_Witness ==
    /\ ret.op = "stdevlap"
    /\ Len(sw["a"]._laps) = 1
    /\ ret.err = "StatisticsError"

\* C15: for every non-negative number of seconds x, s_to_hms(x) is (h, m, s)
\* with 0 <= m < 60 and 0 <= s < 60, and hms_to_s(*s_to_hms(x)) = x.
C15_HmsRoundTrip ==
    /\ ret.op \in {"s_to_hms", "hms_to_s"} =>
           /\ ret.hms[1] >= 0
           /\ ret.hms[2] \in 0..59
           /\ ret.hms[3] \in 0..59
    /\ ret.op = "hms_to_s" => ret.v2 = ret.v

\* 3725 seconds have been converted to 1 h 2 min 5 s and back
C15_Witness ==
    /\ ret.op = "hms_to_s"
    /\ ret.v = 3725
    /\ ret.hms = <<1, 2, 5>>
    /\ ret.v2 = 3725

\* C16: on a Stopwatch constructed with process=f, every report returned by
\* check(), lap() and the lap statistics is f(raw seconds), whatever numeric, hms
\* and form are at construction or in the call.
C16_ProcessSupersedes ==
    (ret.op \in {"check_with", "lap_with", "lastlap_with"}
       /\ sw["a"].process = "f") =>
        ret.rep = [kind |-> "process", val |-> <<ret.v>>, err |-> ""]

\* C17: iterating timed_loop with a cutoff outside 0..4 fails with ValueError
\* for every input sequence, the empty one included, every budget and every
\* chunk size: such an iteration never comes to its end without the error.
C17_InvalidCutoffFails ==
    (gen.kind = "timed" /\ gen.cutoff \notin 0..4 /\ gen.tpc = "done") =>
        gen.err = "ValueError"

\* the place of the first argument of sws that is not a Stopwatch, or 0
FirstInvalid(sws) ==
    IF \A k \in DOMAIN sws : sws[k] \in Watches THEN 0
    ELSE CHOOSE j \in DOMAIN sws :
             /\ sws[j] \notin Watches
             /\ \A k \in 1..(j - 1) : sws[k] \in Watches

\* C18: when a.sync(t1, ..., tn) is called and tj is the first argument that
\* is not a Stopwatch, TypeError is raised, every target before tj has been
\* reset onto the epoch of a (its _start and _less, no laps, no hits), every
\* target that only comes after tj is unchanged, and a is unchanged.
C18_SyncInvalidTarget ==
    [][(ret'.op = "sync_many" /\ FirstInvalid(ret'.sws) # 0) =>
          LET sws == ret'.sws
              j == FirstInvalid(sws)
              before == {sws[k] : k \in 1..(j - 1)}
              after == {sws[k] : k \in (j + 1)..Len(sws)} \cap Watches
          IN  /\ ret'.err = "TypeError"
              /\ \A t \in before :
                     /\ sw'[t]._start = sw[ret'.w]._start
                     /\ sw'[t]._less = sw[ret'.w]._less
                     /\ sw'[t]._laps = <<>>
                     /\ sw'[t]._hits = 0
              /\ \A t \in after \ before : sw'[t] = sw[t]
              /\ sw'[ret'.w] = sw[ret'.w]]_vars

\* a.sync(b, None) has failed after b, reset later than a, was moved onto the
\* epoch of a
C18_Witness ==
    /\ ret.op = "sync_many"
    /\ ret.sws = <<"b", "None">>
    /\ ret.err = "TypeError"
    /\ sw["b"]._start = sw["a"]._start
    /\ sw["b"]._hits = 0
    /\ clock > sw["a"]._start

\* C19: hits is never negative and never decreases except to 0 by reset() or
\* reset_hits(); only hit(), check_after() and lap_after() change it otherwise,
\* and pause(), start(), check() and lap() leave it unchanged.
C19_HitsMonotone ==
    [][\A x \in Watches :
         /\ sw'[x]._hits >= 0
         /\ sw'[x]._hits < sw[x]._hits =>
                /\ ret'.op \in {"reset", "reset_hits"}
                /\ sw'[x]._hits = 0
         /\ sw'[x]._hits > sw[x]._hits =>
                ret'.op \in {"hit", "check_after", "lap_after"}
         /\ ret'.op \in {"pause", "start", "check", "lap"} =>
                sw'[x]._hits = sw[x]._hits]_vars

\* the step is a call that resets watch x: reset(), func_timer(), report()
\* with reset, the first next() of a loop_timer generator whose `every` is
\* accepted (TypeError is raised before the reset otherwise), or sync() with
\* x as a target that comes before the first argument that is no Stopwatch
Resets(x) ==
    \/ ret'.op \in {"reset", "func_timer", "report_reset"} /\ ret'.w = x
    \/ ret'.op = "next" /\ gen.pc = "new" /\ gen.every >= 1 /\ x = "a"
    \/ ret'.op = "sync" /\ ret'.w # x
    \/ /\ ret'.op = "sync_many"
       /\ \E k \in DOMAIN ret'.sws :
              /\ ret'.sws[k] = x
              /\ FirstInvalid(ret'.sws) \in {0} \cup (k + 1)..Len(ret'.sws)

\* C20: across a step of any operation that resets nothing the laps of before
\* are a prefix of the laps of after and at most one lap is appended; the
\* laps become empty only by a reset.
C20_LapsAppendOnly ==
    [][\A x \in Watches :
         LET old == sw[x]._laps
             new == sw'[x]._laps
         IN  /\ ~Resets(x) =>
                    /\ Len(new) \in {Len(old), Len(old) + 1}
                    /\ SubSeq(new, 1, Len(old)) = old
             /\ (old # <<>> /\ new = <<>>) => Resets(x)
             /\ (Resets(x) /\ ret'.err = "") => Len(new) <= 1]_vars

\* lap() has appended a second lap to the first
C20_Witness ==
    /\ ret.op = "lap"
    /\ ret.log
    /\ Len(sw["a"]._laps) = 2
    /\ sw["a"]._lap = sw["a"]._laps[2]

\* C21: a watch the caller has paused (by pause(), or by construction or
\* reset() with start=False) and not started since is inactive, with _pause
\* holding the reading taken at the pause, whatever that reading is.
C21_PauseTakesEffect ==
    \A x \in Watches :
        (ideal[x].valid /\ ideal[x].open) =>
            /\ inactive(sw[x])
            /\ ~active(sw[x])
            /\ sw[x]._pause = ideal[x].ps

\* C22: in loop_timer the lap of a chunk is committed by the next() that
\* follows the last item of the chunk, before the first item of the next
\* chunk is yielded: while the consumer holds item number c the watch has one
\* lap per chunk that ended before that item, a next() in the middle of a
\* chunk commits nothing, a next() after the last item of a chunk commits
\* exactly one lap, and nothing is committed between two calls of next().
C22_LapCommittedBetweenChunks ==
    [][(gen'.kind = "loop" /\ gen'.every >= 1) =>
          LET k == gen'.every
              n == Len(gen'.src.items)
              c == Len(gen.out)
              old == sw["a"]._laps
              new == sw'["a"]._laps
          IN  /\ gen'.pc = "yielded" =>
                     Len(new) = (Len(gen'.out) - 1) \div k
              /\ ret'.op # "next" => new = old
              /\ (ret'.op = "next" /\ gen.pc = "yielded") =>
                     IF c % k = 0 \/ c = n
                     THEN Len(new) = Len(old) + 1
                          /\ SubSeq(new, 1, Len(old)) = old
                     ELSE new = old]_vars

\* the third item of a list in chunks of two is held by the consumer: the lap
\* of the first chunk is there, that of the second is not
C22_Witness ==
    /\ gen.kind = "loop" /\ gen.pc = "yielded"
    /\ gen.every = 2
    /\ gen.out = <<1, 2, 3>>
    /\ Len(sw["a"]._laps) = 1
    /\ ret.op = "next"

\* C23: timed_loop sets the break flag only at the end of a chunk: the next()
\* that sets it follows the last item of a chunk of `every` items, never an
\* item that is not the last of its chunk.
C23_ExpiryCheckedAtChunkEnd ==
    [][(/\ gen.kind = "timed"
        /\ ret'.op = "next"
        /\ ~sw["a"]._break_loop
        /\ sw'["a"]._break_loop) =>
           PyMod(gen.ti + 1, gen.every) = 0]_vars

\* C24: when a next() of timed_loop has set the break flag after a yielded
\* item, loop_timer yields no further item, commits exactly one lap for the
\* chunk it was in, starts no further chunk, and the iteration is at its end.
C24_BreakEndsTheLoop ==
    [][(gen.kind = "timed" /\ ret'.op = "next" /\ sw'["a"]._break_loop) =>
          LET old == sw["a"]._laps
              new == sw'["a"]._laps
          IN  /\ gen'.tpc = "done"
              /\ gen'.pc = "done"
              /\ gen'.err = ""
              /\ gen'.tout = gen.tout
              /\ gen'.i = gen.i
              /\ Len(new) = Len(old) + 1
              /\ SubSeq(new, 1, Len(old)) = old]_vars

\* a list of four items in chunks of three was ended by the check after its
\* first item: one item yielded, one lap
C24_Witness ==
    /\ gen.kind = "timed" /\ gen.tpc = "done"
    /\ sw["a"]._break_loop
    /\ gen.every = 3
    /\ Len(gen.src.items) = 4
    /\ gen.tout = <<1>>
    /\ Len(sw["a"]._laps) = 1

\* C25: start() adds one and the same amount to _less and to _lap_less and
\* clears _pause, so that _less - _lap_less is what it was before the call,
\* also when the time source advances on each reading.
C25_StartAddsSameAmount ==
    [][\A x \in Watches :
         (ret'.op = "start" /\ ret'.w = x) =>
             /\ sw'[x]._pause = 0
             /\ sw'[x]._less - sw[x]._less
                  = sw'[x]._lap_less - sw[x]._lap_less]_vars

\* the fields of watch w after a reset with the given _start and _less, the
\* watch left paused or not
IsReset(w, s0, l0, paused) ==
    /\ w._start = s0 /\ w._split = s0
    /\ w._less = l0 /\ w._lap_less = 0
    /\ w._hits = 0 /\ w._lap = 0 /\ w._check = 0
    /\ w._laps = <<>>
    /\ ~w._break_loop
    /\ w._pause = IF paused THEN s0 ELSE 0

\* C26: after reset(start) the watch has _start = _split = the reading reset
\* took, _less = _lap_less = 0, no hits, no laps, _lap = _check = 0, the break
\* flag off, and _pause 0 when start is true, _start when it is false; as the
\* target of sync it has the _start and _less of the source instead, paused
\* when the source is inactive. Nothing else of its timing state is kept.
C26_ResetPostcondition ==
    [][/\ ret'.op = "reset" =>
              IsReset(sw'[ret'.w], clock', 0, ideal'[ret'.w].open)
       /\ ret'.op = "sync" =>
              \A y \in Watches \ {ret'.w} :
                  IsReset(sw'[y], sw[ret'.w]._start, sw[ret'.w]._less,
                          ~active(sw[ret'.w]))]_vars

\* reset() after a timed loop that was ended by the break flag and logged
\* laps: the flag is off and the laps are gone
C26_Witness ==
    /\ ret.op = "reset"
    /\ gen.kind = "timed" /\ gen.tpc = "done"
    /\ Len(gen.tout) >= 2
    /\ ~sw["a"]._break_loop
    /\ sw["a"]._laps = <<>>
    /\ sw["a"]._start = clock

\* C27: at most one lap is logged per pause. A lap() on a paused watch that
\* directly follows another lap() on it, the watch paused before and after
\* (no start in between), appends nothing to _laps and returns a lap of 0,
\* whether or not the call before logged a lap.
C27_OneLapPerPause ==
    [][\A x \in Watches :
           (/\ ret.op = "lap" /\ ret.w = x
            /\ ret'.op = "lap" /\ ret'.w = x
            /\ inactive(sw[x]) /\ inactive(sw'[x])) =>
               /\ sw'[x]._laps = sw[x]._laps
               /\ ret'.v = 0]_vars

\* C27, with the first call logging enabled: while the watch remains paused,
\* after one lap() call made with log = True the open lap is 0; from then on
\* every lap() call appends nothing to _laps, returns a lap of 0 and leaves the
\* open lap at 0, and so does every other call that leaves the watch paused.
\* So at most one lap is logged per pause once a logging lap() has been made.
C27_OneLapPerPauseAfterLoggingCall ==
    [][\A x \in Watches :
           /\ (ret'.op = "lap" /\ ret'.w = x /\ ret'.log /\ inactive(sw'[x])) =>
                  OpenLap(x)' = 0
           /\ (/\ ret'.op = "lap" /\ ret'.w = x
               /\ inactive(sw[x]) /\ inactive(sw'[x])
               /\ OpenLap(x) = 0) =>
                  /\ sw'[x]._laps = sw[x]._laps
                  /\ ret'.v = 0
           /\ (inactive(sw[x]) /\ inactive(sw'[x]) /\ OpenLap(x) = 0) =>
                  OpenLap(x)' = 0]_vars

\* a watch paused at reading 1 with its one lap logged up to the pause, after
\* a lap() call made at reading 2 with logging enabled: it returned 0 and
\* logged nothing more
C27_Witness ==
    /\ ret.op = "lap" /\ ret.w = "a" /\ ret.log
    /\ inactive(sw["a"])
    /\ ret.v = 0
    /\ sw["a"]._laps = <<1>>
    /\ sw["a"]._pause = 1
    /\ sw["a"]._split = 1
    /\ OpenLap("a") = 0
    /\ clock = 2

====
